---- MODULE Spec2Model ----
(***************************************************************************)
(* Model of the scheduler bot's workflow/session engine:                   *)
(*   - SessionManager (app/session_manager.py): the in-memory registry;    *)
(*   - handle_app_mention (app/main.py): the entry dispatcher, a coroutine *)
(*     whose steps interleave with other handlers at every await;          *)
(*   - main_graph (graph/main_graph.py): the stage graph, one engine task  *)
(*     per main_graph.ainvoke(...), checkpointed per thread_id by the      *)
(*     InMemorySaver of tools/memory_tools.py.                             *)
(* Sync graph nodes run outside the event loop, so a node of one task      *)
(* interleaves with handlers and with nodes of other tasks.                *)
(***************************************************************************)
EXTENDS Integers, Sequences, FiniteSets, TLC

\* ---------------------------------------------------------------- bounds
MaxEvents == 2      \* inbound app_mention events over the whole behaviour
MaxTurns == 4       \* messages the human writes in a turn-by-turn conversation

\* ------------------------------------------------------------ value sets
Threads == {"C1:1.0", "C1:2.0"}         \* thread_id = f"{channel_id}:{thread_ts}"

\* The thread of a conversation followed turn by turn
TurnThread == "C1:1.0"

None == "None"                          \* Python None / absent dict key

NoText == << >>                         \* user_response not yet bound

\* Message texts are sequences of characters so that lower() and the
\* substring test of route_response are computed, not assumed.
TextEND     == <<"E", "N", "D">>
TextMixed   == <<"o", "k", " ", "E", "n", "D">>
TextYes     == <<"y", "e", "s">>
TextOption  == <<"O", "p", "t", "i", "o", "n", " ", "2">>
Texts == {TextEND, TextMixed, TextYes, TextOption}
TurnTexts == {TextEND, TextYes}
TextWeekend == <<"w", "e", "e", "k", "e", "n", "d">>
WordTexts == {TextEND, TextYes, TextWeekend}

UpperChars == <<"A","B","C","D","E","F","G","H","I","J","K","L","M",
                "N","O","P","Q","R","S","T","U","V","W","X","Y","Z">>
LowerChars == <<"a","b","c","d","e","f","g","h","i","j","k","l","m",
                "n","o","p","q","r","s","t","u","v","w","x","y","z">>

\* str.lower() on one character
LowerChar(c) ==
    IF \E k \in DOMAIN UpperChars : UpperChars[k] = c
    THEN LowerChars[CHOOSE k \in DOMAIN UpperChars : UpperChars[k] = c]
    ELSE c

\* str.lower()
lower(s) == [k \in DOMAIN s |-> LowerChar(s[k])]

\* Python's `needle in hay` on strings
In(needle, hay) ==
    \E k \in 0..(Len(hay) - Len(needle)) :
        SubSeq(hay, k + 1, k + Len(needle)) = needle

\* The cancel keyword as route_response spells it
CancelKeyword == <<"e", "n", "d">>

\* --------------------------------------------------- HITL agent's output
Intents == {"CONFIRM", "REJECT_WITH_NEW_INFO", "AMBIGUOUS"}

\* hitl_output before the HITL agent has run. A missing or null
\* confirmed_option is written 0: the code reads it as `... or 1`, which
\* takes None and 0 alike.
NoHitl ==
    [intent |-> None, participants_to_add |-> << >>,
     confirmed_option |-> 0, new_information |-> None]

\* What json.loads of the agent's final message can yield: the intent key
\* may carry one of the three intents, something else, or be missing (None);
\* participants_to_add may be missing/empty or name somebody.
HitlOutputs ==
    [intent : Intents \cup {"OTHER", None},
     participants_to_add : {<< >>, <<"U2">>},
     confirmed_option : {0},
     new_information : {None}]

\* Outputs that may also state a new constraint
ConstraintHitlOutputs ==
    [intent : Intents,
     participants_to_add : {<< >>, <<"U2">>},
     confirmed_option : {0},
     new_information : {None, "c1", "c2"}]

\* Outputs that may also name the ordinal of a proposed slot
OrdinalHitlOutputs ==
    [intent : Intents,
     participants_to_add : {<< >>},
     confirmed_option : {0, 1, 2},
     new_information : {None}]

\* What json.loads makes of an agent's final message: a dict, a
\* JSONDecodeError, or valid JSON that is no dict (null, a list, a string)
JsonKinds == {"dict", "invalid", "not_a_dict"}

\* The except-branch default of run_hitl_agent_node (invalid JSON)
HitlFallback ==
    [intent |-> "AMBIGUOUS", participants_to_add |-> << >>,
     confirmed_option |-> 0,
     new_information |-> "Agent failed to produce valid JSON."]

\* ------------------------------------------- receptionist agent's output
\* receptionist_output before the receptionist has run (None in main.py)
NoReceptionist ==
    [error |-> FALSE, constraints |-> << >>, chat_history_users |-> {}]

\* The except-branch default of run_receptionist_agent_node: a dict with
\* the key "error" only, so .get('constraints') has nothing to give
ReceptionistError ==
    [error |-> TRUE, constraints |-> << >>, chat_history_users |-> {}]

\* The parsed output for a request that states one constraint
ReceptionistPlain ==
    [error |-> FALSE, constraints |-> <<"c0">>, chat_history_users |-> {}]

\* Parsed outputs that may also name users found in the chat history
ReceptionistOutputs ==
    {ReceptionistError} \cup
    [error : {FALSE}, constraints : {<<"c0">>},
     chat_history_users : {{}, {"U3"}}]

\* ------------------------------------------------ analyze agent's output
\* The final message of the analyze agent: text that json.loads accepts,
\* with its time_slots, or text that it rejects.
\* Slots s1 and s2 are written as '2025-10-01 09:00-10:00 Asia/Manila';
\* the slot "tbd" is text with no date and time range in it.
DatedSlots == {"s1", "s2"}
NoProposal == [parses |-> FALSE, time_slots |-> << >>]
TwoSlots == [parses |-> TRUE, time_slots |-> <<"s1", "s2">>]
Proposals ==
    {NoProposal} \cup
    [parses : {TRUE},
     time_slots : {<< >>, <<"s1">>, <<"tbd">>, <<"s1", "s2">>}]

\* analyze_structured when json.loads raised (None in the code)
NoStructured == [parsed |-> FALSE, time_slots |-> << >>]

\* json.loads(proposed_times) under try/except, as run_analyze_agent_node
\* stores it in analyze_structured
json_loads(message) ==
    IF message.parses
    THEN [parsed |-> TRUE, time_slots |-> message.time_slots]
    ELSE NoStructured

\* The input the analyze agent has not been given yet
\* The namespace every agent executor builds its memory tools with
Namespace == "thread1"

\* create_manage_memory_tool(namespace): a memory about a user is put in
\* the store under the namespace
manage_memory(st, namespace, about) ==
    st \cup {[namespace |-> namespace, about |-> about]}

\* create_search_memory_tool(namespace): the items of the namespace that
\* rank highest for the query, which are all of them while they are fewer
\* than the limit
search_memory(st, namespace) == {m \in st : m.namespace = namespace}

\* event["authorizations"][0]["user_id"]: the bot's own user id
bot_user_id == "B"

\* re.findall(r"<@([A-Z0-9]+)>", text) on the text of the request that
\* opens a thread: the bot, mentioned first, then the users to meet
re_findall(t) ==
    IF t = TurnThread THEN <<"B", "U0", "U1">> ELSE <<"B", "U5", "U4">>

\* The elements of a list
Elements(seq) == {seq[k] : k \in DOMAIN seq}

\* extract_mentioned_users(event["text"], bot_user_id): the ids found in
\* the text that are not the bot's, then mentioned_ids[1:]
extract_mentioned_users(t) ==
    LET IsUser(uid) == uid # bot_user_id
        mentioned_ids == SelectSeq(re_findall(t), IsUser)
    IN  Elements(SubSeq(mentioned_ids, 2, Len(mentioned_ids)))

NoAgentInput == [memories |-> {}, constraints |-> << >>, recent_constraints |-> << >>,
                 involved_users |-> {}]

\* ------------------------------------------------------------- GraphState
\* What get_user_info returned for the requester, as far as the engine
\* uses it: whether an e-mail address can be had for them
KnownRequester == [email |-> TRUE]
Requesters == [email : BOOLEAN]

\* The fields of GraphState the engine reads and writes, as
\* handle_app_mention initialises them; the two keys it leaves out
\* (analyze_structured, recent_constraints) read as None / [].
InitialState ==
    [user |-> KnownRequester,
     involved_users |-> {"U1"},
     receptionist_output |-> NoReceptionist,
     proposed_times |-> NoProposal,
     analyze_structured |-> NoStructured,
     recent_constraints |-> << >>,
     user_response |-> NoText,
     hitl_output |-> NoHitl]

\* Checkpoint slot of a thread that has none
NoCheckpoint == [next |-> None, interrupted |-> FALSE, values |-> InitialState]

VARIABLES
    sessions,       \* SessionManager._sessions: thread_id -> status (None = no key)
    checkpointer,   \* InMemorySaver: thread_id -> latest checkpoint
    handlers,       \* running invocations of handle_app_mention, in arrival order
    tasks,          \* running asyncio tasks of main_graph.ainvoke, in creation order
    posted,         \* kinds of messages sent to each thread
    arrived,        \* number of inbound events so far
    dispatched,     \* what the returned handlers saw and did, per thread
    calendar,       \* slots committed to the calendar, per thread
    contributed,    \* constraints stated in replies sent to re-analysis, per run
    added,          \* participants named in replies sent to re-analysis, per run
    faulted,        \* failures that hit a thread's suspended run
    attempts,       \* the calls of schedule_final_meeting and their results, per thread
    store,          \* InMemoryStore: the long-term memories of each namespace
    proposed,       \* the analyze agent's latest final message, per run
    log,            \* what the SessionManager has printed about each thread
    shown,          \* the latest options message sent to each thread
    summarized      \* the latest summary given to the HITL agent, per thread

vars == <<sessions, checkpointer, handlers, tasks, posted, arrived, dispatched,
          calendar, contributed, added, faulted, attempts, store, proposed, log,
          shown, summarized>>

\* What the steps that call the SessionManager leave alone
effects == <<calendar, contributed, added, faulted, attempts, store, proposed,
             shown, summarized>>

\* What most steps of the dispatcher and the engine leave alone
history == <<calendar, contributed, added, faulted, attempts, store, proposed, log,
             shown, summarized>>

\* The sequence without its i-th element
Remove(seq, i) == SubSeq(seq, 1, i - 1) \o SubSeq(seq, i + 1, Len(seq))

\* --------------------------------------------------------- SessionManager
\* Variant of create_session that keeps a record that is there already
create_session_keeps_existing(s, t) ==
    IF s[t] # None THEN s ELSE [s EXCEPT ![t] = "running"]

\* SessionManager.create_session: overwrites whatever is there
create_session(s, t) == [s EXCEPT ![t] = "running"]

\* What create_session prints: the warning when the key is there already,
\* then "Session created"
create_session_prints(lg, s, t) ==
    [lg EXCEPT ![t] = @ \cup (IF s[t] # None THEN {"exists_overwriting"} ELSE {})
                        \cup {"created"}]

\* Variant of get_active_session that tests for the wrong status
get_active_session_running(s, t) ==
    IF s[t] # None /\ s[t] = "running" THEN s[t] ELSE None

\* SessionManager.get_active_session: the session only if awaiting HITL input
get_active_session(s, t) ==
    IF s[t] # None /\ s[t] = "awaiting_hitl" THEN s[t] ELSE None

\* SessionManager.get_any_session: the session whatever its status
get_any_session(s, t) == s[t]

\* Variant of update_session_status that sets the status of every session
update_session_status_all(s, t, status) ==
    [u \in DOMAIN s |-> IF s[u] # None THEN status ELSE s[u]]

\* SessionManager.update_session_status: no-op (logged) when the key is absent
update_session_status(s, t, status) ==
    IF s[t] # None THEN [s EXCEPT ![t] = status] ELSE s

\* What update_session_status prints: the new status, or the error when
\* the key is absent
update_session_status_prints(lg, s, t) ==
    [lg EXCEPT ![t] = @ \cup (IF s[t] # None THEN {"status_updated"}
                              ELSE {"could_not_find"})]

\* Variant of close_session that keeps the record and marks it completed
close_session_marks_completed(s, t) ==
    IF s[t] # None THEN [s EXCEPT ![t] = "completed"] ELSE s

\* SessionManager.close_session: the key is deleted when it is there
close_session(s, t) ==
    IF s[t] # None THEN [s EXCEPT ![t] = None] ELSE s

\* What close_session prints: "closed" when the key was there, nothing
\* otherwise
close_session_prints(lg, s, t) ==
    [lg EXCEPT ![t] = @ \cup (IF s[t] # None THEN {"closed"} ELSE {})]

\* The statuses the comment of create_session lists
Statuses == {"running", "awaiting_hitl", "completed"}

\* ------------------------------------------------------------ engine tasks
\* asyncio.create_task(main_graph.ainvoke(initial_state, config))
StartTask(t, user) ==
    [thread |-> t, input |-> "start", resume |-> NoText, has_resume |-> FALSE,
     node |-> "__start__", route |-> None,
     values |-> [InitialState EXCEPT
                    !.user = user,
                    !.involved_users = extract_mentioned_users(t)],
     agent_input |-> NoAgentInput]

\* asyncio.create_task(main_graph.ainvoke(Command(resume=user_text), config))
ResumeTask(t, text) ==
    [thread |-> t, input |-> "resume", resume |-> text, has_resume |-> TRUE,
     node |-> "__start__", route |-> None, values |-> InitialState,
     agent_input |-> NoAgentInput]

\* --------------------------------------------------------------- dispatcher
Post(t, kind) == [posted EXCEPT ![t] = @ \cup {kind}]

\* Slack delivers an app_mention event; the handler coroutine is created.
Arrive(t, text, max) ==
    /\ arrived < max
    /\ arrived' = arrived + 1
    /\ handlers' = Append(handlers,
          [thread |-> t, text |-> text, pc |-> "ack",
           seen |-> None, branch |-> None, did |-> {}])
    /\ UNCHANGED <<sessions, checkpointer, tasks, posted, dispatched, history>>

\* The handler coroutine returns: it leaves the event loop, and what it saw
\* and did is kept for the record.
Return(i, h) ==
    /\ handlers' = Remove(handlers, i)
    /\ dispatched' = [dispatched EXCEPT ![h.thread] = @ \cup
          {[seen |-> h.seen, branch |-> h.branch, did |-> h.did]}]

\* handle_app_mention from the return of `await ack()` to its next await:
\* the two registry lookups and the branch; the resume branch has no await
\* and runs to the end of the handler.
Dispatch(i) ==
    LET h == handlers[i]
        t == h.thread
        existing_session == get_any_session(sessions, t)
        active_session == get_active_session(sessions, t)
    IN  /\ h.pc = "ack"
        /\ IF active_session # None
           THEN /\ sessions' = update_session_status(sessions, t, "running")
                /\ log' = update_session_status_prints(log, sessions, t)
                /\ tasks' = Append(tasks, ResumeTask(t, h.text))
                /\ Return(i, [h EXCEPT !.seen = sessions[t],
                                       !.branch = "resume", !.did = {"resume"}])
           ELSE IF existing_session # None
           THEN /\ handlers' = [handlers EXCEPT ![i] =
                      [@ EXCEPT !.pc = "say_duplicate", !.seen = sessions[t],
                                !.branch = "duplicate"]]
                /\ UNCHANGED <<sessions, tasks, dispatched, log>>
           ELSE /\ handlers' = [handlers EXCEPT ![i] =
                      [@ EXCEPT !.pc = "say_new", !.seen = sessions[t],
                                !.branch = "new"]]
                /\ UNCHANGED <<sessions, tasks, dispatched, log>>
        /\ UNCHANGED <<checkpointer, posted, arrived, effects>>

\* Variant of SayDuplicate that falls through to the resume branch
SayDuplicate_resuming(i) ==
    LET h == handlers[i]
    IN  /\ h.pc = "say_duplicate"
        /\ posted' = Post(h.thread, "still_processing")
        /\ sessions' = update_session_status(sessions, h.thread, "running")
        /\ tasks' = Append(tasks, ResumeTask(h.thread, h.text))
        /\ Return(i, [h EXCEPT !.did = @ \cup {"notice"}])
        /\ UNCHANGED <<checkpointer, arrived, history>>

\* The duplicate branch: `await say("I'm already processing ...")` completes
\* and the handler returns.
SayDuplicate(i) ==
    LET h == handlers[i]
    IN  /\ h.pc = "say_duplicate"
        /\ posted' = Post(h.thread, "still_processing")
        /\ Return(i, [h EXCEPT !.did = @ \cup {"notice"}])
        /\ UNCHANGED <<sessions, checkpointer, tasks, arrived, history>>

\* The new branch: `await say("Got it ...")` completes, then create_session
\* runs up to `await get_user_info(...)`.
SayNew(i) ==
    LET h == handlers[i]
    IN  /\ h.pc = "say_new"
        /\ posted' = Post(h.thread, "ack")
        /\ sessions' = create_session(sessions, h.thread)
        /\ log' = create_session_prints(log, sessions, h.thread)
        /\ handlers' = [handlers EXCEPT ![i] =
              [@ EXCEPT !.pc = "user_info", !.did = @ \cup {"create"}]]
        /\ UNCHANGED <<checkpointer, tasks, arrived, dispatched, effects>>

\* The new branch: get_user_info and extract_mentioned_users have returned
\* (they touch no shared state), the initial state is built and the engine
\* task is created; the handler returns.
StartNew(i, users) ==
    LET h == handlers[i]
    IN  /\ h.pc = "user_info"
        /\ \E triggering_user \in users :
              tasks' = Append(tasks, StartTask(h.thread, triggering_user))
        /\ Return(i, [h EXCEPT !.did = @ \cup {"start"}])
        /\ UNCHANGED <<sessions, checkpointer, posted, arrived, history>>

\* ------------------------------------------------------------------ engine
\* Variant of route_response that tests the raw text without lower()
route_response_case_sensitive(state) ==
    LET user_response == state.user_response
        intent == state.hitl_output.intent
        newly_added == state.hitl_output.participants_to_add
    IN  IF In(CancelKeyword, user_response) THEN "force_end"
        ELSE IF newly_added # << >> THEN "re-analyze"
        ELSE IF intent = "CONFIRM" THEN "schedule_meeting"
        ELSE IF intent = "REJECT_WITH_NEW_INFO" THEN "re-analyze"
        ELSE "clarify"

\* Variant of route_response that switches on the intent before it looks
\* at the participants to add
route_response_intent_first(state) ==
    LET user_response == lower(state.user_response)
        intent == state.hitl_output.intent
        newly_added == state.hitl_output.participants_to_add
    IN  IF In(CancelKeyword, user_response) THEN "force_end"
        ELSE IF intent = "CONFIRM" THEN "schedule_meeting"
        ELSE IF newly_added # << >> THEN "re-analyze"
        ELSE IF intent = "REJECT_WITH_NEW_INFO" THEN "re-analyze"
        ELSE "clarify"

\* Variant of route_response that sends every non-confirming reply back to
\* the analyzer
route_response_no_clarify(state) ==
    LET user_response == lower(state.user_response)
        intent == state.hitl_output.intent
        newly_added == state.hitl_output.participants_to_add
    IN  IF In(CancelKeyword, user_response) THEN "force_end"
        ELSE IF newly_added # << >> THEN "re-analyze"
        ELSE IF intent = "CONFIRM" THEN "schedule_meeting"
        ELSE "re-analyze"

\* Variant of route_response that takes an intent it does not know for a
\* confirmation
route_response_default_confirm(state) ==
    LET user_response == lower(state.user_response)
        intent == state.hitl_output.intent
        newly_added == state.hitl_output.participants_to_add
    IN  IF In(CancelKeyword, user_response) THEN "force_end"
        ELSE IF newly_added # << >> THEN "re-analyze"
        ELSE IF intent = "REJECT_WITH_NEW_INFO" THEN "re-analyze"
        ELSE IF intent = "AMBIGUOUS" THEN "clarify"
        ELSE "schedule_meeting"

\* route_response: the conditional edge evaluated after hitl_agent
route_response(state) ==
    LET user_response == lower(state.user_response)
        intent == state.hitl_output.intent
        newly_added == state.hitl_output.participants_to_add
    IN  IF In(CancelKeyword, user_response) THEN "force_end"
        ELSE IF newly_added # << >> THEN "re-analyze"
        ELSE IF intent = "CONFIRM" THEN "schedule_meeting"
        ELSE IF intent = "REJECT_WITH_NEW_INFO" THEN "re-analyze"
        ELSE "clarify"

\* Variant of ConditionalEdge whose re-analyze path goes to present_options
ConditionalEdge_skips_analyze(label) ==
    CASE label = "force_end" -> "force_end"
      [] label = "end_conversation" -> "__end__"
      [] label = "schedule_meeting" -> "schedule_meeting"
      [] label = "re-analyze" -> "present_options"
      [] label = "clarify" -> "clarify"

\* The path map of add_conditional_edges("hitl_agent", route_response, {...})
ConditionalEdge(label) ==
    CASE label = "force_end" -> "force_end"
      [] label = "end_conversation" -> "__end__"
      [] label = "schedule_meeting" -> "schedule_meeting"
      [] label = "re-analyze" -> "analyze"
      [] label = "clarify" -> "clarify"

\* Variant of Checkpoint that keeps the first checkpoint of a thread
Checkpoint_first_wins(t, next, values) ==
    IF checkpointer[t].next = None
    THEN [checkpointer EXCEPT ![t] =
            [next |-> next, interrupted |-> FALSE, values |-> values]]
    ELSE checkpointer

\* The checkpointer saves the state after every step, keyed by thread_id;
\* the latest checkpoint of a thread supersedes the earlier one.
Checkpoint(t, next, values) ==
    [checkpointer EXCEPT ![t] =
        [next |-> next, interrupted |-> FALSE, values |-> values]]

\* A node that only passes the state on to a fixed successor; after the
\* last node the task is over.
Advance(j, next) ==
    /\ tasks' = IF next = "__end__" THEN Remove(tasks, j)
                ELSE [tasks EXCEPT ![j] = [@ EXCEPT !.node = next]]
    /\ checkpointer' = Checkpoint(tasks[j].thread, next, tasks[j].values)

\* The task begins to run: a start enters at the entry point, its input
\* written over the thread's latest checkpoint, so that the keys the input
\* leaves out keep what the checkpoint has; a resume continues from the
\* thread's latest checkpoint, and has nothing to run when there is none
\* or the graph had finished. The resume value is at hand for the first
\* step only: it is lost when that step is not the node that calls
\* interrupt().
Begin(j) ==
    LET task == tasks[j]
        t == task.thread
        ck == checkpointer[t]
        merged == [task.values EXCEPT
                      !.analyze_structured = ck.values.analyze_structured,
                      !.recent_constraints = ck.values.recent_constraints]
    IN  /\ task.node = "__start__"
        /\ IF task.input = "start"
           THEN /\ tasks' = [tasks EXCEPT ![j] =
                      [@ EXCEPT !.node = "preprocess_data", !.values = merged]]
                /\ checkpointer' = Checkpoint(t, "preprocess_data", merged)
           ELSE IF ck.next \in {None, "__end__"}
           THEN /\ tasks' = Remove(tasks, j)
                /\ UNCHANGED checkpointer
           ELSE /\ tasks' = [tasks EXCEPT ![j] =
                      [@ EXCEPT !.node = ck.next, !.values = ck.values,
                                !.has_resume = (ck.next = "wait_for_input"),
                                !.resume = IF ck.next = "wait_for_input"
                                           THEN @ ELSE NoText]]
                /\ UNCHANGED checkpointer
        /\ UNCHANGED <<sessions, handlers, posted, arrived, dispatched, history>>

preprocess_data_node(j) ==
    /\ tasks[j].node = "preprocess_data"
    /\ Advance(j, "receptionist")
    /\ UNCHANGED <<sessions, handlers, posted, arrived, dispatched, history>>

\* run_receptionist_agent_node: the parsed output (or the except-branch
\* default) is stored, and the users it found in the chat history join
\* involved_users. The agent may have stored a long-term preference of a
\* participant with its manage-memory tool.
run_receptionist_agent_node(j, outputs, writes) ==
    LET task == tasks[j]
    IN  /\ task.node = "receptionist"
        /\ \E write \in writes, about \in task.values.involved_users :
             store' = IF write THEN manage_memory(store, Namespace, about)
                      ELSE store
        /\ \E structured_output \in outputs :
             LET state == [task.values EXCEPT
                              !.receptionist_output = structured_output,
                              !.involved_users =
                                  @ \cup structured_output.chat_history_users]
             IN  /\ tasks' = [tasks EXCEPT ![j] =
                       [@ EXCEPT !.node = "analyze", !.values = state]]
                 /\ checkpointer' = Checkpoint(task.thread, "analyze", state)
        /\ UNCHANGED <<sessions, handlers, posted, arrived, dispatched,
                       calendar, contributed, added, faulted, attempts, proposed, log,
                       shown, summarized>>

\* Variant of run_analyze_agent_node that adds the new slots to those
\* analyze_structured already has
run_analyze_agent_node_merging(j, proposals) ==
    LET task == tasks[j]
        recent_constraints == task.values.recent_constraints
        agent_input ==
            [memories |-> search_memory(store, Namespace),
             constraints |-> task.values.receptionist_output.constraints,
             recent_constraints |-> recent_constraints,
             involved_users |-> task.values.involved_users]
    IN  /\ task.node = "analyze"
        /\ \E proposed_times \in proposals :
             LET state == [task.values EXCEPT
                              !.proposed_times = proposed_times,
                              !.analyze_structured =
                                  IF proposed_times.parses
                                  THEN [parsed |-> TRUE,
                                        time_slots |-> @.time_slots \o
                                            proposed_times.time_slots]
                                  ELSE @]
             IN  /\ tasks' = [tasks EXCEPT ![j] =
                       [@ EXCEPT !.node = "present_options", !.values = state,
                                 !.agent_input = agent_input]]
                 /\ checkpointer' =
                       Checkpoint(task.thread, "present_options", state)
                 /\ proposed' = [proposed EXCEPT ![task.thread] = proposed_times]
        /\ UNCHANGED <<sessions, handlers, posted, arrived, dispatched,
                       calendar, contributed, added, faulted, attempts, store, log,
                       shown, summarized>>

\* run_analyze_agent_node: the agent is given the request's constraints,
\* the session-scoped ones and the participants, and what its
\* search-memory tool returns; its final message is kept raw in
\* proposed_times and parsed in analyze_structured.
run_analyze_agent_node(j, proposals) ==
    LET task == tasks[j]
        recent_constraints == task.values.recent_constraints
        agent_input ==
            [memories |-> search_memory(store, Namespace),
             constraints |-> task.values.receptionist_output.constraints,
             recent_constraints |-> recent_constraints,
             involved_users |-> task.values.involved_users]
    IN  /\ task.node = "analyze"
        /\ \E proposed_times \in proposals :
             LET state == [task.values EXCEPT
                              !.proposed_times = proposed_times,
                              !.analyze_structured = json_loads(proposed_times)]
             IN  /\ tasks' = [tasks EXCEPT ![j] =
                       [@ EXCEPT !.node = "present_options", !.values = state,
                                 !.agent_input = agent_input]]
                 /\ checkpointer' =
                       Checkpoint(task.thread, "present_options", state)
                 /\ proposed' = [proposed EXCEPT ![task.thread] = proposed_times]
        /\ UNCHANGED <<sessions, handlers, posted, arrived, dispatched,
                       calendar, contributed, added, faulted, attempts, store, log,
                       shown, summarized>>

\* The message present_options_node composes from proposed_times
OptionsMessage(raw) ==
    IF raw.parses
    THEN CASE Len(raw.time_slots) = 0 -> "no_slots"
           [] Len(raw.time_slots) = 1 -> "one_option"
           [] OTHER -> "options"
    ELSE "raw_proposal"

\* No options message yet
NoMessage == [header |-> None, lines |-> << >>, footer |-> None]

\* Variant of present_options_text that numbers the options from 0
present_options_text_from_zero(raw) ==
    IF raw.parses
    THEN LET slots == raw.time_slots
         IN  [header |-> CASE Len(slots) = 0 -> "no_slots"
                           [] Len(slots) = 1 -> "one_option"
                           [] OTHER -> "options",
              lines |-> [idx \in 1..Len(slots) |->
                            [idx |-> idx - 1, slot |-> slots[idx]]],
              footer |-> CASE Len(slots) = 0 -> "adjust_timeframe_or_constraints"
                           [] Len(slots) = 1 -> "yes_or_no"
                           [] OTHER -> "confirm_an_option"]
    ELSE [header |-> "raw_proposal",
          lines |-> <<[idx |-> 0, slot |-> "raw"]>>,
          footer |-> "confirm_or_suggest_changes"]

\* The text present_options_node joins from header, human_lines and
\* footer: no line for no slot, "1) slot" for one, "idx) s" from 1 for
\* more; a proposal that is no dict goes out raw, as one line without a
\* number.
present_options_text(raw) ==
    IF raw.parses
    THEN LET slots == raw.time_slots
         IN  [header |-> CASE Len(slots) = 0 -> "no_slots"
                           [] Len(slots) = 1 -> "one_option"
                           [] OTHER -> "options",
              lines |-> IF Len(slots) = 1
                        THEN <<[idx |-> 1, slot |-> slots[1]]>>
                        ELSE [idx \in 1..Len(slots) |->
                                 [idx |-> idx, slot |-> slots[idx]]],
              footer |-> CASE Len(slots) = 0 -> "adjust_timeframe_or_constraints"
                           [] Len(slots) = 1 -> "yes_or_no"
                           [] OTHER -> "confirm_an_option"]
    ELSE [header |-> "raw_proposal",
          lines |-> <<[idx |-> 0, slot |-> "raw"]>>,
          footer |-> "confirm_or_suggest_changes"]

\* A node whose asyncio.run(send_message()) raised: the exception leaves
\* the node, the engine task is over, and the thread's checkpoint stays
\* the one written before the node.
Raise(j) ==
    /\ tasks' = Remove(tasks, j)
    /\ UNCHANGED checkpointer

\* present_options_node: the message is composed and sent with
\* asyncio.run(send_message()), outside any try; the edge to wait_for_input
\* follows when the node returns.
present_options_node(j, sends) ==
    /\ tasks[j].node = "present_options"
    /\ \E sent \in sends :
          IF sent
          THEN /\ Advance(j, "wait_for_input")
               /\ posted' = Post(tasks[j].thread,
                                 OptionsMessage(tasks[j].values.proposed_times))
               /\ shown' = [shown EXCEPT ![tasks[j].thread] =
                      present_options_text(tasks[j].values.proposed_times)]
          ELSE Raise(j) /\ UNCHANGED <<posted, shown>>
    /\ UNCHANGED <<sessions, handlers, arrived, dispatched, calendar,
                   contributed, added, faulted, attempts, store, proposed, log,
                   summarized>>

\* wait_for_input_node up to the call of interrupt(): the node body runs
\* from its first line each time the node is entered, on a first visit and
\* on a resume alike.
wait_for_input_mark(j) ==
    /\ tasks[j].node = "wait_for_input"
    /\ sessions' = update_session_status(sessions, tasks[j].thread, "awaiting_hitl")
    /\ log' = update_session_status_prints(log, sessions, tasks[j].thread)
    /\ tasks' = [tasks EXCEPT ![j] = [@ EXCEPT !.node = "wait_for_input:interrupt"]]
    /\ UNCHANGED <<checkpointer, handlers, posted, arrived, dispatched, effects>>

\* Variant of wait_for_input_interrupt whose resumed node returns a fresh
\* state with the reply in it
wait_for_input_interrupt_fresh(j) ==
    LET task == tasks[j]
        t == task.thread
        resumed == [InitialState EXCEPT !.user_response = task.resume]
    IN  /\ task.node = "wait_for_input:interrupt"
        /\ IF task.has_resume
           THEN /\ tasks' = [tasks EXCEPT ![j] =
                      [@ EXCEPT !.node = "hitl_agent", !.values = resumed,
                                !.resume = NoText, !.has_resume = FALSE]]
                /\ checkpointer' = Checkpoint(t, "hitl_agent", resumed)
           ELSE /\ tasks' = Remove(tasks, j)
                /\ checkpointer' = [checkpointer EXCEPT ![t] =
                      [next |-> "wait_for_input", interrupted |-> TRUE,
                       values |-> task.values]]
        /\ UNCHANGED <<sessions, handlers, posted, arrived, dispatched, history>>

\* interrupt("waiting_for_user_input"): with a resume value at hand it
\* returns the value and the node returns {"user_response": value};
\* otherwise the task stops and the interrupt is saved with the checkpoint.
wait_for_input_interrupt(j) ==
    LET task == tasks[j]
        t == task.thread
        resumed == [task.values EXCEPT !.user_response = task.resume]
    IN  /\ task.node = "wait_for_input:interrupt"
        /\ IF task.has_resume
           THEN /\ tasks' = [tasks EXCEPT ![j] =
                      [@ EXCEPT !.node = "hitl_agent", !.values = resumed,
                                !.resume = NoText, !.has_resume = FALSE]]
                /\ checkpointer' = Checkpoint(t, "hitl_agent", resumed)
           ELSE /\ tasks' = Remove(tasks, j)
                /\ checkpointer' = [checkpointer EXCEPT ![t] =
                      [next |-> "wait_for_input", interrupted |-> TRUE,
                       values |-> task.values]]
        /\ UNCHANGED <<sessions, handlers, posted, arrived, dispatched, history>>

\* No summary yet
NoSummary == [kind |-> None, slots |-> << >>]

\* The summary of proposed_times run_hitl_agent_node writes into the
\* agent's input
proposal_summary(raw) ==
    IF raw.parses
    THEN [kind |-> CASE Len(raw.time_slots) = 0 -> "no_candidate"
                     [] Len(raw.time_slots) = 1 -> "single_candidate"
                     [] OTHER -> "candidates",
          slots |-> raw.time_slots]
    ELSE [kind |-> "raw_proposal", slots |-> << >>]

\* run_hitl_agent_node followed by its conditional edge. The agent's final
\* message parses to a dict, or json.loads raises JSONDecodeError (the
\* except branch), or it parses to something that has no .get: then the
\* AttributeError leaves the node and the run is over, nothing saved.
\* A stated constraint joins recent_constraints when the intent is
\* REJECT_WITH_NEW_INFO.
run_hitl_agent_node(j, outputs, writes) ==
    LET task == tasks[j]
        t == task.thread
    IN  /\ task.node = "hitl_agent"
        /\ \E write \in writes, about \in task.values.involved_users :
             store' = IF write THEN manage_memory(store, Namespace, about)
                      ELSE store
        /\ summarized' = [summarized EXCEPT ![t] =
               proposal_summary(task.values.proposed_times)]
        /\ \E json \in JsonKinds, structured_output \in outputs :
             LET hitl_output == IF json = "dict" THEN structured_output
                                ELSE HitlFallback
                 captured == /\ json = "dict"
                             /\ structured_output.intent = "REJECT_WITH_NEW_INFO"
                             /\ structured_output.new_information # None
                 state == [task.values EXCEPT
                              !.hitl_output = hitl_output,
                              !.recent_constraints =
                                  IF captured
                                  THEN Append(@, structured_output.new_information)
                                  ELSE @]
                 label == route_response(state)
             IN  IF json = "not_a_dict"
                 THEN /\ tasks' = Remove(tasks, j)
                      /\ UNCHANGED <<checkpointer, contributed, added>>
                 ELSE /\ tasks' = [tasks EXCEPT ![j] =
                            [@ EXCEPT !.node = ConditionalEdge(label),
                                      !.route = label, !.values = state]]
                      /\ checkpointer' =
                            Checkpoint(t, ConditionalEdge(label), state)
                      /\ contributed' =
                            IF /\ json = "dict"
                               /\ label = "re-analyze"
                               /\ structured_output.new_information # None
                            THEN [contributed EXCEPT ![t] =
                                    Append(@, structured_output.new_information)]
                            ELSE contributed
                      /\ added' =
                            IF json = "dict" /\ label = "re-analyze"
                            THEN [added EXCEPT ![t] = @ \cup
                                    Elements(structured_output.participants_to_add)]
                            ELSE added
        /\ UNCHANGED <<sessions, handlers, posted, arrived, dispatched,
                       calendar, faulted, attempts, proposed, log, shown>>

\* clarification_node, then the edge clarify -> wait_for_input
clarification_node(j, sends) ==
    /\ tasks[j].node = "clarify"
    /\ \E sent \in sends :
          IF sent
          THEN /\ Advance(j, "wait_for_input")
               /\ posted' = Post(tasks[j].thread, "clarify")
          ELSE Raise(j) /\ UNCHANGED posted
    /\ UNCHANGED <<sessions, handlers, arrived, dispatched, history>>

\* The regular expression of _parse_confirmed_slot finds a date and a
\* time range in the slot's text
re_search(slot) == slot \in DatedSlots

\* Variant of parse_confirmed_slot without the default ordinal
parse_confirmed_slot_no_default(state) ==
    LET hitl == state.hitl_output
        analyze_struct == state.analyze_structured
        confirmed_index == hitl.confirmed_option - 1
        slots == IF analyze_struct.parsed THEN analyze_struct.time_slots
                 ELSE << >>
    IN  IF slots = << >> \/ ~(0 <= confirmed_index /\ confirmed_index < Len(slots))
        THEN None
        ELSE IF ~re_search(slots[confirmed_index + 1]) THEN None
        ELSE slots[confirmed_index + 1]

\* _parse_confirmed_slot of schedule_meeting_node: the slot the confirmed
\* ordinal points at, None when there is no such slot
parse_confirmed_slot(state) ==
    LET hitl == state.hitl_output
        analyze_struct == state.analyze_structured
        confirmed_index ==
            (IF hitl.confirmed_option # 0 THEN hitl.confirmed_option ELSE 1) - 1
        slots == IF analyze_struct.parsed THEN analyze_struct.time_slots
                 ELSE << >>
    IN  IF slots = << >> \/ ~(0 <= confirmed_index /\ confirmed_index < Len(slots))
        THEN None
        ELSE IF ~re_search(slots[confirmed_index + 1]) THEN None
        ELSE slots[confirmed_index + 1]

\* _collect_initial_attendees and _resolve_added_participants: the
\* requester, the involved users and the participants the current HITL
\* output names, as far as an e-mail address is found for them; the list
\* at its longest, every address found
collect_attendees(state) ==
    (IF state.user.email THEN {"requester"} ELSE {})
    \cup state.involved_users
    \cup Elements(state.hitl_output.participants_to_add)

\* Variant of schedule_meeting_node that calls schedule_final_meeting a
\* second time when the first call failed
schedule_meeting_node_retrying(j, sends) ==
    LET task == tasks[j]
        t == task.thread
        slot == parse_confirmed_slot(task.values)
    IN  /\ task.node = "schedule_meeting"
        /\ Advance(j, "__end__")
        /\ \E attendee_email \in BOOLEAN, result \in BOOLEAN, again \in BOOLEAN :
             LET account_email == task.values.user.email \/ attendee_email
                 call == [slot |-> slot, ok |-> result,
                          attendees |-> collect_attendees(task.values)]
                 results == IF result THEN <<call>>
                            ELSE <<call, [call EXCEPT !.ok = again]>>
                 done == result \/ again
             IN
             IF slot = None \/ ~account_email
             THEN UNCHANGED <<posted, calendar, attempts>>
             ELSE /\ posted' = Post(t, IF done THEN "scheduled" ELSE "failed")
                  /\ attempts' = [attempts EXCEPT ![t] = @ \o results]
                  /\ calendar' = IF done
                                 THEN [calendar EXCEPT ![t] = @ \cup {slot}]
                                 ELSE calendar
        /\ UNCHANGED <<sessions, handlers, arrived, dispatched, contributed, added,
                       faulted, store, proposed, log, shown, summarized>>

\* schedule_meeting_node, which has no outgoing edge: the run ends after
\* it. It asks for e-mail addresses when an added participant has none,
\* gives up without a word when no slot is selected or no account is
\* known (the requester's address, else the first attendee's), and
\* otherwise calls schedule_final_meeting once and posts what it returned.
\* The calendar call comes before the message is sent, so a send that
\* raises leaves the call made.
schedule_meeting_node(j, sends) ==
    LET task == tasks[j]
        t == task.thread
        slot == parse_confirmed_slot(task.values)
    IN  /\ task.node = "schedule_meeting"
        /\ \E unresolved \in IF task.values.hitl_output.participants_to_add = << >>
                             THEN {FALSE} ELSE BOOLEAN,
              attendee_email \in BOOLEAN, result \in BOOLEAN, sent \in sends :
             LET account_email == task.values.user.email \/ attendee_email
             IN
             IF unresolved
             THEN /\ IF sent
                     THEN Advance(j, "__end__") /\ posted' = Post(t, "ask_emails")
                     ELSE Raise(j) /\ UNCHANGED posted
                  /\ UNCHANGED <<calendar, attempts>>
             ELSE IF slot = None \/ ~account_email
             THEN /\ Advance(j, "__end__")
                  /\ UNCHANGED <<posted, calendar, attempts>>
             ELSE /\ attempts' = [attempts EXCEPT ![t] =
                         Append(@, [slot |-> slot, ok |-> result,
                                    attendees |-> collect_attendees(task.values)])]
                  /\ calendar' = IF result
                                 THEN [calendar EXCEPT ![t] = @ \cup {slot}]
                                 ELSE calendar
                  /\ IF sent
                     THEN /\ Advance(j, "__end__")
                          /\ posted' = Post(t, IF result THEN "scheduled"
                                                ELSE "failed")
                     ELSE Raise(j) /\ UNCHANGED posted
        /\ UNCHANGED <<sessions, handlers, arrived, dispatched, contributed, added,
                       faulted, store, proposed, log, shown, summarized>>

\* force_end_node, then the edge force_end -> END
force_end_node(j, sends) ==
    /\ tasks[j].node = "force_end"
    /\ \E sent \in sends :
          IF sent
          THEN /\ Advance(j, "__end__")
               /\ posted' = Post(tasks[j].thread, "cancelled")
          ELSE Raise(j) /\ UNCHANGED posted
    /\ UNCHANGED <<sessions, handlers, arrived, dispatched, history>>

\* ----------------------------------------------------------- specification
Init ==
    /\ sessions = [t \in Threads |-> None]
    /\ checkpointer = [t \in Threads |-> NoCheckpoint]
    /\ handlers = << >>
    /\ tasks = << >>
    /\ posted = [t \in Threads |-> {}]
    /\ arrived = 0
    /\ dispatched = [t \in Threads |-> {}]
    /\ calendar = [t \in Threads |-> {}]
    /\ contributed = [t \in Threads |-> << >>]
    /\ added = [t \in Threads |-> {}]
    /\ faulted = [t \in Threads |-> {}]
    /\ attempts = [t \in Threads |-> << >>]
    /\ store = {}
    /\ proposed = [t \in Threads |-> NoProposal]
    /\ log = [t \in Threads |-> {}]
    /\ shown = [t \in Threads |-> NoMessage]
    /\ summarized = [t \in Threads |-> NoSummary]

\* ------------------------------------------------------------- failures
\* Nothing is in flight: every handler has returned and every task is over
Quiet == handlers = << >> /\ tasks = << >>

\* The process stops and starts again while a run is suspended: the
\* registry (SessionManager._sessions), the checkpoints (InMemorySaver)
\* and the memories (InMemoryStore) live in its memory and start empty; what was posted and what was
\* committed to the calendar is outside the process.
Restart ==
    /\ Quiet
    /\ \E t \in Threads : checkpointer[t].interrupted
    /\ \A t \in Threads : "restart" \notin faulted[t]
    /\ sessions' = [t \in Threads |-> None]
    /\ checkpointer' = [t \in Threads |-> NoCheckpoint]
    /\ faulted' = [t \in Threads |->
          IF checkpointer[t].interrupted THEN faulted[t] \cup {"restart"}
          ELSE faulted[t]]
    /\ contributed' = [t \in Threads |-> << >>]
    /\ added' = [t \in Threads |-> {}]
    /\ store' = {}
    /\ proposed' = [t \in Threads |-> NoProposal]
    /\ UNCHANGED <<handlers, tasks, posted, arrived, dispatched, calendar,
                   attempts, log, shown, summarized>>

\* The checkpoint of a suspended run is no longer to be had from the
\* checkpointer, while the registry still has the thread.
CheckpointLost(t) ==
    /\ Quiet
    /\ checkpointer[t].interrupted
    /\ sessions[t] = "awaiting_hitl"
    /\ faulted[t] = {}
    /\ checkpointer' = [checkpointer EXCEPT ![t] = NoCheckpoint]
    /\ faulted' = [faulted EXCEPT ![t] = @ \cup {"checkpoint_lost"}]
    /\ UNCHANGED <<sessions, handlers, tasks, posted, arrived, dispatched,
                   calendar, contributed, added, attempts, store, proposed, log,
                   shown, summarized>>

\* The steps of the handlers and of the engine tasks, the agents answering
\* from the given sets
Run(users, receptionist, proposals, hitl, sends, writes) ==
    \/ \E i \in DOMAIN handlers : Dispatch(i)
    \/ \E i \in DOMAIN handlers : SayDuplicate(i)
    \/ \E i \in DOMAIN handlers : SayNew(i)
    \/ \E i \in DOMAIN handlers : StartNew(i, users)
    \/ \E j \in DOMAIN tasks : Begin(j)
    \/ \E j \in DOMAIN tasks : preprocess_data_node(j)
    \/ \E j \in DOMAIN tasks : run_receptionist_agent_node(j, receptionist, writes)
    \/ \E j \in DOMAIN tasks : run_analyze_agent_node(j, proposals)
    \/ \E j \in DOMAIN tasks : present_options_node(j, sends)
    \/ \E j \in DOMAIN tasks : wait_for_input_mark(j)
    \/ \E j \in DOMAIN tasks : wait_for_input_interrupt(j)
    \/ \E j \in DOMAIN tasks : run_hitl_agent_node(j, hitl, writes)
    \/ \E j \in DOMAIN tasks : clarification_node(j, sends)
    \/ \E j \in DOMAIN tasks : schedule_meeting_node(j, sends)
    \/ \E j \in DOMAIN tasks : force_end_node(j, sends)

\* Events arrive at any time, on either thread, handlers and tasks
\* interleaving freely.
Next ==
    \/ \E t \in Threads, text \in Texts : Arrive(t, text, MaxEvents)
    \/ Run({KnownRequester}, {ReceptionistPlain}, {TwoSlots}, HitlOutputs, {TRUE},
          {FALSE})
    \/ \E t \in Threads : CheckpointLost(t)

Spec == Init /\ [][Next]_vars

\* ------------------------------------------- one conversation, turn by turn
\* The human writes in one thread, and only when the bot is quiet.
Turn(max) ==
    \E text \in TurnTexts : Quiet /\ Arrive(TurnThread, text, max)

\* A conversation in which the human states constraints and names
\* participants, and in which the process may fail while the run waits
NextLoops ==
    \/ Turn(MaxTurns)
    \/ Run({KnownRequester}, ReceptionistOutputs, {TwoSlots},
           ConstraintHitlOutputs, {TRUE}, {FALSE})
    \/ Restart
    \/ CheckpointLost(TurnThread)

SpecLoops == Init /\ [][NextLoops]_vars

\* A conversation in which the analyzer proposes no, one or two slots, or
\* text that does not parse, and the human may name an ordinal
NextSlots ==
    \/ Turn(MaxTurns)
    \/ Run(Requesters, {ReceptionistPlain}, Proposals, OrdinalHitlOutputs,
           {TRUE}, {FALSE})

SpecSlots == Init /\ [][NextSlots]_vars

\* A conversation in which chat_postMessage may raise (SlackApiError, a
\* connection error) each time a node sends
NextSends ==
    \/ Turn(MaxTurns)
    \/ Run({KnownRequester}, {ReceptionistPlain}, {TwoSlots}, HitlOutputs,
           BOOLEAN, {FALSE})

SpecSends == Init /\ [][NextSends]_vars

\* Conversations in two threads, turn by turn, in which the receptionist
\* and the HITL agent may store preferences of the participants
NextMemory ==
    \/ \E t \in Threads, text \in TurnTexts :
          Quiet /\ Arrive(t, text, MaxTurns)
    \/ Run({KnownRequester}, {ReceptionistPlain}, {TwoSlots}, HitlOutputs,
           {TRUE}, BOOLEAN)

SpecMemory == Init /\ [][NextMemory]_vars

\* A conversation in which the human also writes a word that has the
\* letters of the cancel keyword inside it
NextWords ==
    \/ \E text \in WordTexts : Quiet /\ Arrive(TurnThread, text, MaxTurns)
    \/ Run({KnownRequester}, {ReceptionistPlain}, {TwoSlots}, HitlOutputs,
           {TRUE}, {FALSE})

SpecWords == Init /\ [][NextWords]_vars

\* The steps of the handlers and of the engine tasks in a conversation
\* with one human
Engine ==
    Run({KnownRequester}, {ReceptionistPlain}, {TwoSlots}, HitlOutputs,
        {TRUE}, {FALSE})

\* A conversation, turn by turn, in which the event loop and the executor
\* threads keep running: a handler or a task that can take a step takes
\* it in the end, while nothing makes the human write
NextLive ==
    \/ Turn(MaxTurns)
    \/ Engine

SpecLive == Init /\ [][NextLive]_vars /\ WF_vars(Engine)

\* ------------------------------------------------- the registry on its own
\* The methods of SessionManager that write, called in any order for any
\* thread and any status
RegistryCreate(t) ==
    /\ sessions' = create_session(sessions, t)
    /\ log' = create_session_prints(log, sessions, t)
    /\ UNCHANGED <<checkpointer, handlers, tasks, posted, arrived, dispatched,
                   effects>>

RegistryUpdate(t, status) ==
    /\ sessions' = update_session_status(sessions, t, status)
    /\ log' = update_session_status_prints(log, sessions, t)
    /\ UNCHANGED <<checkpointer, handlers, tasks, posted, arrived, dispatched,
                   effects>>

RegistryClose(t) ==
    /\ sessions' = close_session(sessions, t)
    /\ log' = close_session_prints(log, sessions, t)
    /\ UNCHANGED <<checkpointer, handlers, tasks, posted, arrived, dispatched,
                   effects>>

NextRegistry ==
    \/ \E t \in Threads : RegistryCreate(t)
    \/ \E t \in Threads, status \in Statuses : RegistryUpdate(t, status)
    \/ \E t \in Threads : RegistryClose(t)

SpecRegistry == Init /\ [][NextRegistry]_vars

\* ================================================================ properties
\* Tasks of thread t that have been created and are not over
TasksOf(t) == {j \in DOMAIN tasks : tasks[j].thread = t}

\* Handlers of thread t that have taken the given branch and not returned
HandlersIn(t, branch) ==
    {i \in DOMAIN handlers : handlers[i].thread = t /\ handlers[i].branch = branch}

\* The reply text has the letters e, n, d in a row, in any letter case
HasCancelKeyword(text) ==
    \E k \in 1..(Len(text) - 2) :
        /\ text[k] \in {"e", "E"}
        /\ text[k + 1] \in {"n", "N"}
        /\ text[k + 2] \in {"d", "D"}

\* The nodes a task passes after a routing decision, up to its next suspension
AfterRoute(label) ==
    CASE label = "force_end" -> {"force_end"}
      [] label = "schedule_meeting" -> {"schedule_meeting"}
      [] label = "clarify" -> {"clarify", "wait_for_input", "wait_for_input:interrupt"}
      [] label = "re-analyze" -> {"analyze", "present_options", "wait_for_input",
                                   "wait_for_input:interrupt"}

\* C1: of the events dispatched concurrently on a thread that has no session,
\* at most one is in the new-run branch at any time and at most one engine
\* run is being started for the thread.
C1_MutualExclusion ==
    \A t \in Threads :
        /\ Cardinality(HandlersIn(t, "new")) <= 1
        /\ Cardinality({j \in TasksOf(t) : tasks[j].input = "start"}) <= 1

\* C2: no thread has two engine executions in flight at once, a start and a
\* resume or two resumes.
C2_OneExecutionPerThread ==
    \A t \in Threads : \A j, k \in TasksOf(t) :
        (j # k) => (tasks[j].input = "start" /\ tasks[k].input = "start")

\* A thread's run is suspended: its checkpoint holds the interrupt, no task
\* is executing for the thread and no handler is in the middle of a branch.
Suspended(t) ==
    /\ checkpointer[t].interrupted
    /\ TasksOf(t) = {}
    /\ \A i \in DOMAIN handlers :
          handlers[i].thread = t => handlers[i].branch = None

\* C3: the status is awaiting_hitl while the run is suspended at
\* wait_for_input, and after a reply has resumed the run the status is
\* running throughout hitl_agent and the stage routed to.
C3_StatusTracksRun ==
    \A t \in Threads :
        /\ Suspended(t) => sessions[t] = "awaiting_hitl"
        /\ \A j \in TasksOf(t) :
             (/\ tasks[j].input = "resume"
              /\ tasks[j].node \in {"hitl_agent", "analyze", "present_options",
                                    "clarify", "schedule_meeting", "force_end"})
             => sessions[t] = "running"

\* C4: once the run of a thread has ended after schedule_meeting or
\* force_end, the thread has no session record.
C4_TerminalClosesSession ==
    \A t \in Threads :
        (checkpointer[t].next = "__end__" /\ TasksOf(t) = {})
        => sessions[t] = None

\* The classification the registry entry calls for
Classification(status) ==
    CASE status = None -> "new"
      [] status = "awaiting_hitl" -> "resume"
      [] status = "running" -> "duplicate"

\* The one effect each classification calls for
Effect(branch) ==
    CASE branch = "new" -> "start"
      [] branch = "resume" -> "resume"
      [] branch = "duplicate" -> "notice"

\* C5: the branch a handler takes is a function of the registry entry it
\* read (no record: new; awaiting_hitl: resume; running: duplicate), and a
\* handler that has returned has done exactly the one of start, resume and
\* still-processing notice that goes with its branch.
C5_ClassificationTotal ==
    /\ \A i \in DOMAIN handlers :
         handlers[i].branch # None =>
            handlers[i].branch = Classification(handlers[i].seen)
    /\ \A t \in Threads : \A d \in dispatched[t] :
         /\ d.branch = Classification(d.seen)
         /\ d.did \cap {"start", "resume", "notice"} = {Effect(d.branch)}

\* C5 witness: a handler has read awaiting_hitl and resumed the run
C5_Witness ==
    \E t \in Threads : \E d \in dispatched[t] :
        d.seen = "awaiting_hitl" /\ d.did = {"resume"}

\* A step of a handler in the duplicate branch: the step that takes the
\* branch, or the step that sends the notice and returns
DuplicateStep ==
    \E i \in DOMAIN handlers :
        \/ /\ handlers[i].pc = "ack"
           /\ Len(handlers') = Len(handlers)
           /\ handlers'[i].pc = "say_duplicate"
        \/ /\ handlers[i].pc = "say_duplicate"
           /\ handlers' = Remove(handlers, i)

\* C6: handling a duplicate event leaves the session registry, the
\* checkpoints and the engine tasks as they were, and its last step sends the
\* still-processing notice to the thread.
C6_DuplicateFrame ==
    [][DuplicateStep =>
          /\ UNCHANGED <<sessions, checkpointer, tasks>>
          /\ \A i \in DOMAIN handlers :
               (handlers[i].pc = "say_duplicate" /\ handlers' = Remove(handlers, i))
               => "still_processing" \in posted'[handlers[i].thread]]_vars

\* C6 witness: a duplicate event has been answered with the notice
C6_Witness ==
    \E t \in Threads :
        /\ "still_processing" \in posted[t]
        /\ \E d \in dispatched[t] : d.branch = "duplicate" /\ "notice" \in d.did

\* C7: a reply whose text has the cancel keyword in any letter case is routed
\* to force_end whatever the HITL output holds.
C7_CancelOverrides ==
    \A j \in DOMAIN tasks :
        (tasks[j].route # None /\ HasCancelKeyword(tasks[j].values.user_response))
        => (tasks[j].route = "force_end" /\ tasks[j].node = "force_end")

\* C7 witness: an upper-case END was routed to force_end although the HITL
\* output says CONFIRM and names a participant to add
C7_Witness ==
    \E j \in DOMAIN tasks :
        /\ tasks[j].values.user_response = TextEND
        /\ tasks[j].values.hitl_output.intent = "CONFIRM"
        /\ tasks[j].values.hitl_output.participants_to_add # << >>
        /\ tasks[j].node = "force_end"

\* C8: a reply without the cancel keyword whose HITL output names
\* participants to add is routed to re-analyze for every intent.
C8_ParticipantsForceReAnalyze ==
    \A j \in DOMAIN tasks :
        (/\ tasks[j].route # None
         /\ ~HasCancelKeyword(tasks[j].values.user_response)
         /\ tasks[j].values.hitl_output.participants_to_add # << >>)
        => (tasks[j].route = "re-analyze" /\ tasks[j].node \in AfterRoute("re-analyze"))

\* C8 witness: a CONFIRM that names a participant went to the analyzer
C8_Witness ==
    \E j \in DOMAIN tasks :
        /\ ~HasCancelKeyword(tasks[j].values.user_response)
        /\ tasks[j].values.hitl_output.intent = "CONFIRM"
        /\ tasks[j].values.hitl_output.participants_to_add # << >>
        /\ tasks[j].node = "analyze"

\* The stage the classified intent alone calls for
ByIntent(intent) ==
    CASE intent = "CONFIRM" -> "schedule_meeting"
      [] intent = "REJECT_WITH_NEW_INFO" -> "re-analyze"
      [] intent = "AMBIGUOUS" -> "clarify"

\* C9: a reply without the cancel keyword and without participants to add is
\* routed by its intent: CONFIRM to schedule_meeting, REJECT_WITH_NEW_INFO to
\* re-analyze, AMBIGUOUS to clarify.
C9_RouteByIntent ==
    \A j \in DOMAIN tasks :
        (/\ tasks[j].route # None
         /\ ~HasCancelKeyword(tasks[j].values.user_response)
         /\ tasks[j].values.hitl_output.participants_to_add = << >>
         /\ tasks[j].values.hitl_output.intent \in Intents)
        => (/\ tasks[j].route = ByIntent(tasks[j].values.hitl_output.intent)
            /\ tasks[j].node \in AfterRoute(tasks[j].route))

\* C9 witness: an AMBIGUOUS reply is at clarify
C9_Witness ==
    \E j \in DOMAIN tasks :
        /\ ~HasCancelKeyword(tasks[j].values.user_response)
        /\ tasks[j].values.hitl_output.participants_to_add = << >>
        /\ tasks[j].values.hitl_output.intent = "AMBIGUOUS"
        /\ tasks[j].node = "clarify"

\* C10: whenever a thread's status is awaiting_hitl, the run store already
\* holds the checkpoint of the run suspended at wait_for_input.
C10_CheckpointBeforeAwaiting ==
    \A t \in Threads :
        sessions[t] = "awaiting_hitl" =>
            (checkpointer[t].next = "wait_for_input" /\ checkpointer[t].interrupted)

\* The engine task that takes the step, if one does
Acting(j) ==
    /\ j \in DOMAIN tasks
    /\ IF Len(tasks') = Len(tasks)
       THEN tasks'[j] # tasks[j]
       ELSE Len(tasks') < Len(tasks) /\ tasks' = Remove(tasks, j)

\* The run state a task has at the end of the step it takes
StateAfter(j) ==
    IF Len(tasks') = Len(tasks) THEN tasks'[j].values ELSE tasks[j].values

\* Where a task stands at the end of the step it takes: the node it goes
\* to, the node it waits in, or the end of the graph
PositionAfter(j) ==
    IF Len(tasks') = Len(tasks) THEN tasks'[j].node
    ELSE IF tasks[j].node = "wait_for_input:interrupt" THEN "wait_for_input"
    ELSE "__end__"

\* The step of the task completes a step of the graph: it is not the
\* loading of a checkpoint, not the first half of wait_for_input, and not
\* a node that raised.
CompletesStep(j) ==
    /\ ~(tasks[j].node = "__start__" /\ tasks[j].input = "resume")
    /\ tasks[j].node # "wait_for_input"
    /\ ~(tasks[j].node = "hitl_agent" /\ Len(tasks') < Len(tasks))

C12_ResumeKeepsState ==
    [][/\ (Len(tasks') > Len(tasks) /\ tasks'[Len(tasks')].input = "resume") =>
            \E i \in DOMAIN handlers :
                /\ handlers[i].pc = "ack"
                /\ tasks'[Len(tasks')].thread = handlers[i].thread
                /\ tasks'[Len(tasks')].resume = handlers[i].text
       /\ \A j \in DOMAIN tasks : Acting(j) =>
            LET task == tasks[j]
                ck == checkpointer[task.thread]
            IN  /\ (/\ task.node = "__start__"
                    /\ task.input = "resume"
                    /\ ck.interrupted) =>
                       /\ Len(tasks') = Len(tasks)
                       /\ tasks'[j].node = "wait_for_input"
                       /\ tasks'[j].values = ck.values
                       /\ tasks'[j].has_resume
                       /\ tasks'[j].resume = task.resume
                /\ (task.node = "wait_for_input" /\ task.has_resume) =>
                       /\ tasks'[j].node = "wait_for_input:interrupt"
                       /\ tasks'[j].values = task.values
                       /\ tasks'[j].has_resume
                       /\ tasks'[j].resume = task.resume
                /\ (task.node = "wait_for_input:interrupt" /\ task.has_resume) =>
                       /\ Len(tasks') = Len(tasks)
                       /\ tasks'[j].node = "hitl_agent"
                       /\ tasks'[j].values =
                              [task.values EXCEPT !.user_response = task.resume]]_vars

\* C12 witness: a run that had gathered a constraint and a participant
\* from the chat history before it was suspended has been resumed and
\* stands at hitl_agent with the new reply bound.
C12_Witness ==
    \E j \in DOMAIN tasks :
        /\ tasks[j].input = "resume"
        /\ tasks[j].node = "hitl_agent"
        /\ tasks[j].values.user_response = TextYes
        /\ tasks[j].values.recent_constraints = <<"c1">>
        /\ tasks[j].values.involved_users = {"U1", "U3"}
        /\ tasks[j].values.proposed_times = TwoSlots

\* C13: the input of every call of the analyzer holds the constraints of
\* the original request and, in order, every constraint stated in a reply
\* that sent the run back to re-analysis.
C13_ConstraintsAccumulate ==
    \A j \in DOMAIN tasks :
        tasks[j].node = "present_options" =>
            /\ tasks[j].agent_input.constraints =
                   tasks[j].values.receptionist_output.constraints
            /\ tasks[j].agent_input.recent_constraints =
                   contributed[tasks[j].thread]

\* C14: when a reply that names participants to add has sent the run to
\* re-analysis, the participants given to the analyzer include them.
C14_AddedParticipantAnalyzed ==
    \A j \in DOMAIN tasks :
        (/\ tasks[j].node = "present_options"
         /\ tasks[j].route = "re-analyze") =>
            \A k \in DOMAIN tasks[j].values.hitl_output.participants_to_add :
                tasks[j].values.hitl_output.participants_to_add[k]
                    \in tasks[j].agent_input.involved_users

\* C15: once the reply to a run whose checkpoint was lost has been
\* handled, the thread has no session any more and the human has been told
\* that the context was lost.
C15_LostCheckpointAbandons ==
    \A t \in Threads :
        (/\ "checkpoint_lost" \in faulted[t]
         /\ checkpointer[t].next = None
         /\ Quiet
         /\ sessions[t] # "awaiting_hitl") =>
            /\ sessions[t] = None
            /\ "context_lost" \in posted[t]

\* C16: on a thread whose run was suspended when the process restarted, no
\* event is classified as new and no engine task starts a run afresh.
C16_RestartResumes ==
    \A t \in Threads :
        "restart" \in faulted[t] =>
            /\ HandlersIn(t, "new") = {}
            /\ \A j \in TasksOf(t) : tasks[j].input = "resume"

\* C17: whatever the HITL agent answers, the run goes on after
\* hitl_agent; when the answer is replaced by the AMBIGUOUS default and the
\* reply holds no cancel keyword, the run goes to clarify.
C17_InvalidReplyClarifies ==
    [][\A j \in DOMAIN tasks :
         (Acting(j) /\ tasks[j].node = "hitl_agent") =>
            /\ Len(tasks') = Len(tasks)
            /\ (/\ tasks'[j].values.hitl_output = HitlFallback
                /\ ~HasCancelKeyword(tasks[j].values.user_response)) =>
                   tasks'[j].node = "clarify"]_vars

\* C18: for a proposal that does not parse, present_options sends the
\* message it sends for an empty list of slots, and no schedule step of
\* that round commits a slot.
C18_UnparsedProposalIsEmpty ==
    [][\A j \in DOMAIN tasks : Acting(j) =>
         LET t == tasks[j].thread
         IN  /\ (/\ tasks[j].node = "present_options"
                 /\ ~tasks[j].values.proposed_times.parses) =>
                    /\ posted'[t] = posted[t] \cup {"no_slots"}
                    /\ PositionAfter(j) = "wait_for_input"
             /\ (/\ tasks[j].node = "schedule_meeting"
                 /\ ~tasks[j].values.proposed_times.parses) =>
                    calendar' = calendar]_vars

\* C19: with one slot proposed, a reply read as CONFIRM that names nobody
\* to add and holds no cancel keyword sends the run to schedule_meeting;
\* there, with the ordinal absent or 1, the slot's text holding a date and
\* time range, and an e-mail address known for the requester, the calendar
\* is asked once for that one slot (the meeting is reported as scheduled
\* with the slot committed, or as failed), and no other slot is ever
\* committed.
C19_SingleCandidateConfirm ==
    [][\A j \in DOMAIN tasks : Acting(j) =>
         LET t == tasks[j].thread
             state == tasks[j].values
             slots == state.analyze_structured.time_slots
         IN  /\ (/\ tasks[j].node = "hitl_agent"
                 /\ Len(tasks') = Len(tasks)
                 /\ state.proposed_times.parses
                 /\ Len(state.proposed_times.time_slots) = 1
                 /\ tasks'[j].values.hitl_output.intent = "CONFIRM"
                 /\ tasks'[j].values.hitl_output.participants_to_add = << >>
                 /\ ~HasCancelKeyword(state.user_response)) =>
                    tasks'[j].node = "schedule_meeting"
             /\ (/\ tasks[j].node = "schedule_meeting"
                 /\ state.analyze_structured.parsed
                 /\ Len(slots) = 1) =>
                    /\ calendar'[t] \subseteq calendar[t] \cup {slots[1]}
                    /\ (/\ state.hitl_output.confirmed_option \in {0, 1}
                        /\ slots[1] \in DatedSlots
                        /\ state.user.email) =>
                           \/ /\ posted'[t] = posted[t] \cup {"scheduled"}
                              /\ calendar'[t] = calendar[t] \cup {slots[1]}
                           \/ /\ posted'[t] = posted[t] \cup {"failed"}
                              /\ calendar'[t] = calendar[t]]_vars

\* C19 witness: the only slot proposed has been committed on a CONFIRM
\* that carried no ordinal.
C19_Witness ==
    \E t \in Threads :
        /\ calendar[t] = {"s1"}
        /\ checkpointer[t].next = "__end__"
        /\ checkpointer[t].values.analyze_structured.time_slots = <<"s1">>
        /\ checkpointer[t].values.hitl_output.intent = "CONFIRM"
        /\ checkpointer[t].values.hitl_output.confirmed_option = 0

\* The handler that takes the step, if one does
HandlerActing(i) ==
    /\ i \in DOMAIN handlers
    /\ IF Len(handlers') = Len(handlers)
       THEN handlers'[i] # handlers[i]
       ELSE Len(handlers') < Len(handlers) /\ handlers' = Remove(handlers, i)

\* The threads the step belongs to: that of the event that arrives, of the
\* handler or the task that moves, of the checkpoint that is lost
ActingThreads ==
    {tasks[j].thread : j \in {k \in DOMAIN tasks : Acting(k)}}
    \cup {handlers[i].thread : i \in {k \in DOMAIN handlers : HandlerActing(k)}}
    \cup (IF Len(handlers') > Len(handlers)
          THEN {handlers'[Len(handlers')].thread} ELSE {})
    \cup {t \in Threads : faulted'[t] # faulted[t]}

\* Session record, checkpoint and running tasks of a thread
ThreadState(t) ==
    <<sessions[t], checkpointer[t], SelectSeq(tasks, LAMBDA x : x.thread = t)>>

C21_CommitOnce ==
    \A t \in Threads :
        /\ Len(attempts[t]) <= 1
        /\ (Len(attempts[t]) = 1 /\ ~attempts[t][1].ok) =>
              /\ "failed" \in posted[t]
              /\ "scheduled" \notin posted[t]
              /\ calendar[t] = {}
              /\ checkpointer[t].next = "__end__"
              /\ \A j \in TasksOf(t) : tasks[j].node = "__start__"

\* C21 witness: the one call for a confirmed slot failed and the human
\* was told.
C21_Witness ==
    \E t \in Threads :
        /\ Len(attempts[t]) = 1
        /\ ~attempts[t][1].ok
        /\ "failed" \in posted[t]
        /\ checkpointer[t].next = "__end__"
        /\ checkpointer[t].values.hitl_output.intent = "CONFIRM"

\* C22: a send that fails in present_options, clarify, force_end or
\* schedule_meeting does not abort the run: the step of present_options or
\* clarify is followed by wait_for_input, where the run suspends with the
\* session awaiting the reply, and the step of force_end or
\* schedule_meeting by the end of the graph.
C22_SendFailureContinues ==
    [][\A j \in DOMAIN tasks : Acting(j) =>
         LET t == tasks[j].thread
         IN  /\ tasks[j].node \in {"present_options", "clarify"} =>
                    /\ j \in DOMAIN tasks'
                    /\ tasks'[j].node = "wait_for_input"
                    /\ checkpointer'[t].next = "wait_for_input"
             /\ tasks[j].node \in {"force_end", "schedule_meeting"} =>
                    checkpointer'[t].next = "__end__"]_vars

\* The stage a task is in: the two halves of wait_for_input are one stage
StageOf(node) ==
    IF node = "wait_for_input:interrupt" THEN "wait_for_input" ELSE node

\* The stage transitions as the claim lists them
StageRelation ==
    {<<"preprocess_data", "receptionist">>, <<"receptionist", "analyze">>,
     <<"analyze", "present_options">>, <<"present_options", "wait_for_input">>,
     <<"wait_for_input", "hitl_agent">>,
     <<"hitl_agent", "schedule_meeting">>, <<"hitl_agent", "analyze">>,
     <<"hitl_agent", "clarify">>, <<"hitl_agent", "force_end">>,
     <<"clarify", "wait_for_input">>}

\* C24: a run that goes from one stage to another follows the relation
\* preprocess_data -> receptionist -> analyze -> present_options ->
\* wait_for_input -> hitl_agent -> schedule_meeting | analyze | clarify |
\* force_end, clarify -> wait_for_input; a new run enters at
\* preprocess_data and a resumed one where its checkpoint stands; after
\* schedule_meeting and force_end the run is over; and a run becomes
\* suspended only by a step of wait_for_input, its checkpoint standing
\* there.
C24_StageRelation ==
    [][/\ \A j \in DOMAIN tasks : Acting(j) =>
            LET from == StageOf(tasks[j].node)
                t == tasks[j].thread
            IN  /\ Len(tasks') = Len(tasks) =>
                     LET to == StageOf(tasks'[j].node)
                     IN  \/ to = from
                         \/ /\ from = "__start__"
                            /\ to = IF tasks[j].input = "start"
                                    THEN "preprocess_data"
                                    ELSE checkpointer[t].next
                         \/ <<from, to>> \in StageRelation
                /\ from \in {"schedule_meeting", "force_end"} =>
                     /\ Len(tasks') < Len(tasks)
                     /\ checkpointer'[t].next = "__end__"
                     /\ ~checkpointer'[t].interrupted
       /\ \A t \in Threads :
            checkpointer'[t].interrupted /\ ~checkpointer[t].interrupted =>
               /\ \E j \in TasksOf(t) :
                     Acting(j) /\ tasks[j].node = "wait_for_input:interrupt"
               /\ checkpointer'[t].next = "wait_for_input"]_vars

\* C24 witness: a run that was sent to clarify is back in wait_for_input,
\* about to suspend again.
C24_Witness ==
    \E j \in DOMAIN tasks :
        /\ tasks[j].route = "clarify"
        /\ tasks[j].node = "wait_for_input:interrupt"
        /\ ~tasks[j].has_resume
        /\ "clarify" \in posted[tasks[j].thread]

\* C25: for a reply that has the cancel keyword the run goes to force_end
\* without the HITL agent having been asked about the reply (the run state
\* holds no answer of the agent to it) and with recent_constraints as they
\* were before the reply.
C25_CancelBeforeClassification ==
    [][\A j \in DOMAIN tasks :
         (/\ Acting(j)
          /\ tasks[j].node = "hitl_agent"
          /\ HasCancelKeyword(tasks[j].values.user_response)) =>
            /\ PositionAfter(j) = "force_end"
            /\ StateAfter(j).hitl_output = tasks[j].values.hitl_output
            /\ StateAfter(j).recent_constraints =
                   tasks[j].values.recent_constraints]_vars

\* C23: every memory the analyzer of a run gets from its search is about
\* a participant of that run: a preference stored for a participant of
\* one thread is not returned in a thread he or she takes no part in.
C23_MemoryScopedPerParticipant ==
    \A j \in DOMAIN tasks :
        tasks[j].node = "present_options" =>
            \A m \in tasks[j].agent_input.memories :
                m.about \in tasks[j].agent_input.involved_users

\* The slots an options message lists, in order
ListedSlots(message) ==
    [i \in 1..Len(message.lines) |-> message.lines[i].slot]

\* The ordinal schedule_meeting works with: the one the reply carries, or
\* the first
Ordinal(state) ==
    IF state.hitl_output.confirmed_option # 0
    THEN state.hitl_output.confirmed_option ELSE 1

\* C26: whatever rounds came before, the slots listed to the human, the
\* slots summarized to the HITL agent and the slot schedule_meeting hands
\* to the calendar by its ordinal are those of the analyzer's latest
\* proposal for the thread, and no others.
C26_LatestProposalOnly ==
    [][\A j \in DOMAIN tasks : (Acting(j) /\ proposed[tasks[j].thread].parses) =>
         LET t == tasks[j].thread
             latest == proposed[t].time_slots
         IN  /\ tasks[j].node = "present_options" =>
                    ListedSlots(shown'[t]) = latest
             /\ tasks[j].node = "hitl_agent" =>
                    summarized'[t].slots = latest
             /\ (tasks[j].node = "schedule_meeting"
                    /\ attempts'[t] # attempts[t]) =>
                    /\ Ordinal(tasks[j].values) \in 1..Len(latest)
                    /\ attempts'[t][Len(attempts'[t])].slot =
                           latest[Ordinal(tasks[j].values)]]_vars

\* C26 witness: two options were presented in an earlier round, the
\* latest proposal has the one slot s1, and that is what was listed,
\* summarized and handed to the calendar.
C26_Witness ==
    \E t \in Threads :
        /\ "options" \in posted[t]
        /\ proposed[t].time_slots = <<"s1">>
        /\ ListedSlots(shown[t]) = <<"s1">>
        /\ summarized[t].slots = <<"s1">>
        /\ Len(attempts[t]) = 1
        /\ attempts[t][1].slot = "s1"

\* C27: for a proposal that is a dict, present_options sends the
\* no-slots header and the adjust footer with no line when there is no
\* slot, the one slot as line 1 with the yes/no footer when there is one,
\* and otherwise every slot in the order of the proposal, numbered from 1,
\* with the footer that asks for an option; the run goes on to
\* wait_for_input, where it suspends.
C27_MessageByCount ==
    [][\A j \in DOMAIN tasks : Acting(j) =>
         LET t == tasks[j].thread
             raw == tasks[j].values.proposed_times
             n == Len(raw.time_slots)
             message == shown'[t]
         IN  /\ (tasks[j].node = "present_options" /\ raw.parses) =>
                    /\ n = 0 =>
                          /\ message.header = "no_slots"
                          /\ message.lines = << >>
                          /\ message.footer = "adjust_timeframe_or_constraints"
                    /\ n = 1 =>
                          /\ message.header = "one_option"
                          /\ message.footer = "yes_or_no"
                    /\ n >= 2 =>
                          /\ message.header = "options"
                          /\ message.footer = "confirm_an_option"
                    /\ Len(message.lines) = n
                    /\ \A i \in 1..n :
                          message.lines[i] = [idx |-> i, slot |-> raw.time_slots[i]]
                    /\ message.header \in posted'[t]
                    /\ PositionAfter(j) = "wait_for_input"
             /\ (tasks[j].node = "wait_for_input:interrupt"
                    /\ ~tasks[j].has_resume) =>
                    /\ checkpointer'[t].interrupted
                    /\ checkpointer'[t].next = "wait_for_input"
                    /\ TasksOf(t)' = {}]_vars

\* C27 witness: a run is suspended after two options were listed as 1 and 2.
C27_Witness ==
    \E t \in Threads :
        /\ checkpointer[t].interrupted
        /\ shown[t].header = "options"
        /\ shown[t].lines = <<[idx |-> 1, slot |-> "s1"], [idx |-> 2, slot |-> "s2"]>>
        /\ checkpointer[t].values.proposed_times = TwoSlots

\* C28: with two or more slots proposed, schedule_meeting calls the
\* calendar only for the slot whose ordinal the HITL output carries, and
\* not at all when the output carries none.
C28_CommitNeedsOrdinal ==
    [][\A j \in DOMAIN tasks :
         (/\ Acting(j)
          /\ tasks[j].node = "schedule_meeting"
          /\ Len(tasks[j].values.analyze_structured.time_slots) >= 2
          /\ attempts'[tasks[j].thread] # attempts[tasks[j].thread]) =>
            LET t == tasks[j].thread
                option == tasks[j].values.hitl_output.confirmed_option
            IN  /\ option # 0
                /\ attempts'[t][Len(attempts'[t])].slot =
                       tasks[j].values.analyze_structured.time_slots[option]]_vars

\* C29: the registry has one status, or none, for each thread id; when
\* handle_app_mention creates the session of a thread that has one already,
\* whatever its status, the warning is printed and the thread's session is
\* the one record with status running, the other threads' as before.
C29_CreateOverwrites ==
    [][\A i \in DOMAIN handlers :
         (HandlerActing(i) /\ handlers[i].pc = "say_new") =>
            LET t == handlers[i].thread
            IN  /\ sessions'[t] = "running"
                /\ sessions[t] # None => "exists_overwriting" \in log'[t]
                /\ sessions[t] = None => log'[t] = log[t] \cup {"created"}
                /\ \A u \in Threads \ {t} : sessions'[u] = sessions[u]
                /\ DOMAIN sessions' = Threads]_vars

\* C29 witness: the session of a thread has been created a second time,
\* with the warning, and is running.
C29_Witness ==
    \E t \in Threads :
        /\ "exists_overwriting" \in log[t]
        /\ sessions[t] = "running"
        /\ \E d \in dispatched[t] : d.branch = "new" /\ d.seen = None

\* C30: update_session_status for a thread that has no session changes no
\* session and creates none, and only prints that it found none;
\* close_session leaves the thread without a session and the other threads
\* as they were, and a second close_session changes nothing more.
C30_UpdateAbsentCloseIdempotent ==
    [][\A t \in Threads :
         /\ ((\E status \in Statuses : RegistryUpdate(t, status))
                /\ sessions[t] = None) =>
               /\ sessions' = sessions
               /\ log'[t] = log[t] \cup {"could_not_find"}
         /\ RegistryClose(t) =>
               /\ sessions'[t] = None
               /\ \A u \in Threads \ {t} : sessions'[u] = sessions[u]
               /\ close_session(sessions', t) = sessions'
               /\ close_session_prints(log', sessions', t) = log']_vars

\* C30 witness: a thread whose session was closed has no session, also
\* after an update of its status was asked for.
C30_Witness ==
    \E t \in Threads :
        /\ sessions[t] = None
        /\ {"closed", "could_not_find"} \subseteq log[t]
        /\ \E u \in Threads : sessions[u] # None

\* C31: the participants of a freshly built run state are the users the
\* request text mentions, the bot left out and nobody else.
C31_MentionedUsersInvolved ==
    \A j \in DOMAIN tasks :
        (tasks[j].input = "start" /\ tasks[j].node = "__start__") =>
            tasks[j].values.involved_users =
                Elements(re_findall(tasks[j].thread)) \ {bot_user_id}

\* The reply has END, in any letter case, as a word of its own: the text
\* ends or a blank stands on either side of it
HasCancelWord(text) ==
    \E k \in 1..(Len(text) - 2) :
        /\ text[k] \in {"e", "E"}
        /\ text[k + 1] \in {"n", "N"}
        /\ text[k + 2] \in {"d", "D"}
        /\ k = 1 \/ text[k - 1] = " "
        /\ k + 2 = Len(text) \/ text[k + 3] = " "

\* C32: a reply is routed to force_end only if it has END as a word of
\* its own; a reply that has the letters inside another word is routed by
\* the participants to add and the intent.
C32_CancelOnlyByKeyword ==
    \A j \in DOMAIN tasks :
        tasks[j].route # None =>
            /\ tasks[j].route = "force_end" =>
                   HasCancelWord(tasks[j].values.user_response)
            /\ (/\ ~HasCancelWord(tasks[j].values.user_response)
                 /\ tasks[j].values.hitl_output.participants_to_add = << >>
                 /\ tasks[j].values.hitl_output.intent \in Intents) =>
                   tasks[j].route = ByIntent(tasks[j].values.hitl_output.intent)

\* C33: whenever a run is at schedule_meeting the HITL output in its
\* state names no participant to add, and the request for missing e-mail
\* addresses is never sent.
C33_ScheduleWithoutAdditions ==
    /\ \A j \in DOMAIN tasks :
          tasks[j].node = "schedule_meeting" =>
             tasks[j].values.hitl_output.participants_to_add = << >>
    /\ \A t \in Threads :
          /\ checkpointer[t].next = "schedule_meeting" =>
                checkpointer[t].values.hitl_output.participants_to_add = << >>
          /\ "ask_emails" \notin posted[t]

\* C33 witness: schedule_meeting has run for a confirming reply, after a
\* reply that stated a constraint, and has posted its result.
C33_Witness ==
    \E t \in Threads :
        /\ checkpointer[t].next = "__end__"
        /\ checkpointer[t].values.hitl_output.intent = "CONFIRM"
        /\ checkpointer[t].values.recent_constraints # << >>
        /\ posted[t] \cap {"scheduled", "failed"} # {}

\* C34: when schedule_meeting calls the calendar, every participant that
\* a reply of the conversation added is among the attendees of the call.
C34_AddedParticipantInvited ==
    [][\A j \in DOMAIN tasks :
         LET t == tasks[j].thread
         IN  (/\ Acting(j)
              /\ tasks[j].node = "schedule_meeting"
              /\ attempts'[t] # attempts[t]) =>
                added[t] \subseteq attempts'[t][Len(attempts'[t])].attendees]_vars

\* C35: schedule_final_meeting is called by a step of schedule_meeting
\* only, and for the slot that stands at the confirmed ordinal in the
\* current list of slots; with no slot in the list, or with several slots
\* and an ordinal that is none of 1..n, it is not called.
C35_CommitOnlyConfirmedSlot ==
    [][\A t \in Threads : attempts'[t] # attempts[t] =>
         \E j \in TasksOf(t) :
            LET slots == tasks[j].values.analyze_structured.time_slots
                option == tasks[j].values.hitl_output.confirmed_option
                slot == attempts'[t][Len(attempts'[t])].slot
            IN  /\ Acting(j)
                /\ tasks[j].node = "schedule_meeting"
                /\ Len(attempts'[t]) = Len(attempts[t]) + 1
                /\ Len(slots) >= 1
                /\ Len(slots) >= 2 => option \in 1..Len(slots)
                /\ option # 0 => (option \in 1..Len(slots) /\ slot = slots[option])
                /\ option = 0 => slot = slots[1]]_vars

\* C36: every step of schedule_meeting sends a message to the thread: the
\* result of the calendar call or the request for e-mail addresses.
C36_ScheduleAlwaysNotifies ==
    [][\A j \in DOMAIN tasks :
         (Acting(j) /\ tasks[j].node = "schedule_meeting") =>
            /\ posted'[tasks[j].thread] # posted[tasks[j].thread]
            /\ posted'[tasks[j].thread] \ posted[tasks[j].thread]
                   \subseteq {"scheduled", "failed", "ask_emails"}]_vars

\* C37: when a reply is routed to re-analyze and its HITL output states a
\* constraint, the constraint is in recent_constraints, from which the
\* analyzer's next input is built, whatever the intent.
C37_RoutedConstraintKept ==
    [][\A j \in DOMAIN tasks :
         (/\ Acting(j)
          /\ tasks[j].node = "hitl_agent"
          /\ PositionAfter(j) = "analyze"
          /\ StateAfter(j).hitl_output.new_information # None) =>
            StateAfter(j).hitl_output.new_information
                \in Elements(StateAfter(j).recent_constraints)]_vars

\* C38: a reply without cancel keyword and without participants to add
\* whose HITL output has no intent, or one that is none of CONFIRM,
\* REJECT_WITH_NEW_INFO and AMBIGUOUS, is routed to clarify and is not at
\* schedule_meeting.
C38_UnknownIntentClarifies ==
    \A j \in DOMAIN tasks :
        (/\ tasks[j].route # None
         /\ ~HasCancelKeyword(tasks[j].values.user_response)
         /\ tasks[j].values.hitl_output.participants_to_add = << >>
         /\ tasks[j].values.hitl_output.intent \notin Intents) =>
            /\ tasks[j].route = "clarify"
            /\ tasks[j].node \in AfterRoute("clarify")
            /\ tasks[j].node # "schedule_meeting"

\* C38 witness: a reply whose HITL output has no intent is at clarify.
C38_Witness ==
    \E j \in DOMAIN tasks :
        /\ tasks[j].values.hitl_output.intent = None
        /\ tasks[j].values.user_response = TextYes
        /\ tasks[j].route = "clarify"
        /\ tasks[j].node = "clarify"

\* The run of a thread has come to rest where it may: suspended at
\* wait_for_input with the session awaiting the reply, or at the end of
\* the graph after schedule_meeting or force_end
AtRest(t) ==
    /\ TasksOf(t) = {}
    /\ \/ checkpointer[t].interrupted /\ sessions[t] = "awaiting_hitl"
       \/ checkpointer[t].next = "__end__"

\* C39: every run that has been started or resumed comes to rest in the
\* end: it suspends at wait_for_input with the session awaiting the
\* reply, or it reaches the end of the graph.
C39_RunComesToRest ==
    \A t \in Threads : (TasksOf(t) # {}) ~> AtRest(t)

====
